---- MODULE Spec2Model ----
(***************************************************************************)
(* Page-object layer of the DemoBlaze end-to-end suite.                    *)
(*                                                                         *)
(* Texts (cell contents, dialog messages, arguments) are sequences of     *)
(* tokens: a token is a word or the whitespace token WS, so that trim()    *)
(* and includes() are computed, not assumed.                               *)
(***************************************************************************)
EXTENDS Integers, Sequences, FiniteSets, TLC

\* ------------------------------------------------------------------ bounds
MaxRows == 3

\* ------------------------------------------------------------------- texts
WS == " "

RECURSIVE TrimStart(_)
TrimStart(s) == IF s # <<>> /\ Head(s) = WS THEN TrimStart(Tail(s)) ELSE s

RECURSIVE TrimEnd(_)
TrimEnd(s) ==
    IF s # <<>> /\ s[Len(s)] = WS THEN TrimEnd(SubSeq(s, 1, Len(s) - 1)) ELSE s

\* String.prototype.trim
Trim(s) == TrimEnd(TrimStart(s))

\* String.prototype.includes
Includes(s, sub) ==
    \E i \in 0..(Len(s) - Len(sub)) : SubSeq(s, i + 1, i + Len(sub)) = sub

\* ----------------------------------------------------------------- numbers
\* A number is NaN or a count of thousandths.
NaN == [nan |-> TRUE, v |-> 0]
Num(v) == [nan |-> FALSE, v |-> v]

Digits == { "0", "1", "2", "3", "4", "5", "6", "7", "8", "9" }

DigitVal(c) ==
    CASE c = "0" -> 0 [] c = "1" -> 1 [] c = "2" -> 2 [] c = "3" -> 3
      [] c = "4" -> 4 [] c = "5" -> 5 [] c = "6" -> 6 [] c = "7" -> 7
      [] c = "8" -> 8 [] c = "9" -> 9

RECURSIVE DigitsValue(_)
DigitsValue(ds) ==
    IF ds = <<>> THEN 0
    ELSE DigitsValue(SubSeq(ds, 1, Len(ds) - 1)) * 10 + DigitVal(ds[Len(ds)])

RECURSIVE LeadingDigits(_)
LeadingDigits(s) ==
    IF s # <<>> /\ Head(s) \in Digits
    THEN <<Head(s)>> \o LeadingDigits(Tail(s))
    ELSE <<>>

\* text.replace(/[^\d.]/g, '') with the text left as it is.
StripNothing(s) == s

\* text.replace(/[^\d.]/g, ''): every character that is neither a digit nor
\* a dot is dropped.
StripNonNumeric(s) ==
    LET Keep(c) == c \in Digits \cup { "." }
    IN  SelectSeq(s, Keep)

\* parseFloat of a text of digits and dots: the longest prefix
\* digits [ '.' digits ] is the number; NaN when that prefix has no digit.
ParseFloat(s) ==
    LET int == LeadingDigits(s)
        rest == SubSeq(s, Len(int) + 1, Len(s))
        frac == IF rest # <<>> /\ Head(rest) = "." THEN LeadingDigits(Tail(rest))
                ELSE <<>>
        frac3 == SubSeq(frac \o <<"0", "0", "0">>, 1, 3)
    IN  IF int = <<>> /\ frac = <<>> THEN NaN
        ELSE Num(DigitsValue(int) * 1000 + DigitsValue(frac3))

\* total + price
Plus(a, b) == IF a.nan \/ b.nan THEN NaN ELSE Num(a.v + b.v)

\* 0.01 in thousandths
Tolerance == 10

\* Math.abs(a - b) < 0.01
Within(a, b) ==
    /\ ~a.nan
    /\ ~b.nan
    /\ (IF a.v >= b.v THEN a.v - b.v ELSE b.v - a.v) < Tolerance

\* --------------------------------------------------------------- cart data
\* Raw text of the name cell (td:nth-child(2)) and of the price cell
\* (td:nth-child(3)) of a cart row.
RawNames == { <<"Sony">>, <<"Sony", "vaio">>, <<WS, "Sony", WS>> }
RawPrices == { <<"790">>, <<WS, "360">> }

ProductRows == [name : RawNames, price : RawPrices]

\* The row the remote page renders with no text in it.
PlaceholderRow == [name |-> <<>>, price |-> <<>>]

\* Rows without visible text: no text at all, or whitespace only.
BlankRows == { PlaceholderRow, [name |-> <<WS>>, price |-> <<WS, WS>>] }

\* Arguments the callers pass as itemName.
ArgNames == { <<"Sony">>, <<"Sony", "vaio">>, <<"vaio">> }

RECURSIVE SeqsUpTo(_, _)
SeqsUpTo(S, n) ==
    IF n = 0 THEN { <<>> }
    ELSE LET shorter == SeqsUpTo(S, n - 1)
         IN  shorter \cup { Append(q, x) : q \in shorter, x \in S }

\* "cart": cart.html (#page-wrapper and #tbodyid present); "home": a page
\* with #tbodyid but no #page-wrapper and no table rows; "blank": neither.
Screens == { "cart", "home", "blank" }

CartsOf(scr) ==
    IF scr = "cart" THEN SeqsUpTo(ProductRows, MaxRows) \cup { <<b>> : b \in BlankRows }
    ELSE { <<>> }

VARIABLES
    screen,     \* which page the driver handle shows
    rows,       \* the rows of '#tbodyid tr', in document order
    raPc,       \* removeAllItems: "idle", "test", "click", "done"
    itemCount,  \* removeAllItems' local itemCount
    last,       \* the last cart operation: what it was called with and did
    seen        \* what the cart queries returned since the cart last changed

VARIABLES
    modal,      \* the Bootstrap modal that is visible: "none", "login", "signup", "contact"
    session,    \* remote session: "out", "pending" (accepted, landmark not yet rendered), "in"
    listeners,  \* the page's 'dialog' listeners, in registration order
    opCount,    \* dialog-raising operations started so far
    cur,        \* the operation in progress: its number and its position
    res,        \* per operation: kind, outcome, returned value
    heard,      \* per operation: what its observer received (its alertMessage / dialog)
    remote,     \* per operation: the button its click hit while the answer is in flight
    dlg,        \* per operation: the native dialog its click raised
    aux         \* the last probe or logout: what it saw and returned

VARIABLES
    product,    \* the product whose page is open, as the cart will list it
    basket,     \* the remote application's cart: one row per product added
    totalp      \* the text of '#totalp', the total the cart page displays

VARIABLES
    form,       \* the contact form's fields: email, name, message
    validation, \* what the last verifyFormValidation() returned
    run,        \* the scenario the runner executes, with its afterEach hook
    now,        \* Date.now(), the clock all workers read
    made,       \* the users generateRandomUser() has returned, with the worker
    user,       \* the username the scenario holds (randomUser.username)
    accounts,   \* the usernames registered with the remote application
    welcome,    \* the text of the welcome landmark '#nameofuser'
    verified    \* what the last verifyLoginSuccess() did

VARIABLES
    order,      \* the order modal and the success panel of the cart page
    trail,      \* the checkout operations called so far, with their outcomes
    grid,       \* the product grid of the home page and its pending reload
    nav         \* the last category selection: argument, position, outcome

cartVars == <<screen, rows, raPc, itemCount, last, seen>>
shopVars == <<product, basket, totalp>>
formVars == <<form, validation>>
dataVars == <<now, made>>
accountVars == <<user, accounts, welcome, verified>>
suiteVars == <<form, validation, run, now, made, user, accounts, welcome, verified>>
checkoutVars == <<order, trail>>
gridVars == <<grid, nav>>
storeVars == <<order, trail, grid, nav>>
pageVars == <<modal, session, listeners, opCount, cur, res, heard, remote, dlg, aux>>
vars == <<screen, rows, raPc, itemCount, last, seen,
          modal, session, listeners, opCount, cur, res, heard, remote, dlg, aux,
          product, basket, totalp,
          form, validation, run, now, made, user, accounts, welcome, verified,
          order, trail, grid, nav>>

NoOp == [op |-> "none", arg |-> <<>>, before |-> <<>>, outcome |-> "none",
         effective |-> TRUE]

\* No query called yet: count is the last getCartItemCount() (-1: none),
\* items / threw the last getCartItems(), prev / prevThrew the one before,
\* called the number of getCartItems() calls (counted up to 2).
\* verify is the last verifyItemInCart(arg).
NoSeen == [count |-> -1, called |-> 0, items |-> <<>>, threw |-> FALSE,
           prev |-> <<>>, prevThrew |-> FALSE,
           verify |-> [called |-> FALSE, arg |-> <<>>, value |-> FALSE,
                       threw |-> FALSE],
           total |-> [calcCalled |-> FALSE, expected |-> [nan |-> TRUE, v |-> 0],
                      verifyCalled |-> FALSE, ok |-> FALSE, threw |-> FALSE]]

\* ------------------------------------------------------------ cart queries
WrapperPresent(scr) == scr = "cart"
TbodyPresent(scr) == scr \in { "cart", "home" }

\* Text content of a whole row.
RowText(r) == r.name \o r.price

\* for (let i = 1; i < count; i++): the first row is skipped.
GetCartItemsFromSecond(scr, rs) ==
    IF ~TbodyPresent(scr) THEN [threw |-> TRUE, items |-> <<>>]
    ELSE [threw |-> FALSE,
          items |-> [i \in 1..(Len(rs) - 1) |->
                        [name |-> Trim(rs[i + 1].name), price |-> Trim(rs[i + 1].price)]]]

\* CartPage.getCartItems: waitForSelector('#tbodyid') throws when the
\* table body never appears; otherwise one trimmed {name, price} per row.
GetCartItems(scr, rs) ==
    IF ~TbodyPresent(scr) THEN [threw |-> TRUE, items |-> <<>>]
    ELSE [threw |-> FALSE,
          items |-> [i \in 1..Len(rs) |->
                        [name |-> Trim(rs[i].name), price |-> Trim(rs[i].price)]]]

\* The row count alone, without the single-blank-row case.
GetCartItemCountRaw(scr, rs) == IF ~WrapperPresent(scr) THEN 0 ELSE Len(rs)

\* A getCartItemCount without the try/catch: the failed probe is reported
\* as -1, which stands for the error reaching the caller.
GetCartItemCountNoCatch(scr, rs) ==
    IF ~WrapperPresent(scr) THEN -1
    ELSE LET items == Len(rs)
         IN  IF items = 0 THEN 0
             ELSE IF items = 1 /\ Trim(RowText(rs[1])) = <<>> THEN 0
             ELSE items

\* CartPage.getCartItemCount: every error is caught and reported as 0; a
\* single row without text counts as 0.
GetCartItemCount(scr, rs) ==
    IF ~WrapperPresent(scr) THEN 0
    ELSE LET items == Len(rs)
         IN  IF items = 0 THEN 0
             ELSE IF items = 1 /\ Trim(RowText(rs[1])) = <<>> THEN 0
             ELSE items

\* Array.prototype.findIndex with item => item.name === itemName
\* (0-based, -1 when no element matches).
FindLastIndex(items, itemName) ==
    LET hits == { i \in 1..Len(items) : items[i].name = itemName }
    IN  IF hits = {} THEN -1
        ELSE (CHOOSE i \in hits : \A j \in hits : j <= i) - 1

\* A lookup that falls back to the first row when no name matches.
FindIndexOrFirst(items, itemName) ==
    LET hits == { i \in 1..Len(items) : items[i].name = itemName }
    IN  IF hits = {} THEN (IF items = <<>> THEN -1 ELSE 0)
        ELSE (CHOOSE i \in hits : \A j \in hits : i <= j) - 1

FindIndex(items, itemName) ==
    LET hits == { i \in 1..Len(items) : items[i].name = itemName }
    IN  IF hits = {} THEN -1
        ELSE (CHOOSE i \in hits : \A j \in hits : i <= j) - 1

\* A removal that takes row i and every row after it.
RemoveFrom(rs, i) == SubSeq(rs, 1, i - 1)

RemoveAt(rs, i) == SubSeq(rs, 1, i - 1) \o SubSeq(rs, i + 1, Len(rs))

\* Row indices (1-based) of the rows that carry a delete link
\* ('#tbodyid tr td:nth-child(4) a'), in document order.
RECURSIVE DeleteButtonRows(_, _)
DeleteButtonRows(rs, i) ==
    IF i > Len(rs) THEN <<>>
    ELSE (IF rs[i] \notin BlankRows THEN <<i>> ELSE <<>>)
         \o DeleteButtonRows(rs, i + 1)

\* The remote page's reaction to a click on the k-th (0-based) delete link:
\* the row goes away, or the click silently has no effect.
AfterDeleteClick(rs, k, effective) ==
    IF effective THEN RemoveAt(rs, DeleteButtonRows(rs, 1)[k + 1]) ELSE rs

\* CartPage.isCartEmpty: (await this.getCartItemCount()) === 0
IsCartEmpty(scr, rs) == GetCartItemCount(scr, rs) = 0

\* ---------------------------------------------------------- cart operations
CartIdle == raPc = "idle"

\* A scenario calls CartPage.getCartItemCount()
GetCartItemCountCall ==
    /\ CartIdle
    /\ seen' = [seen EXCEPT !.count = GetCartItemCount(screen, rows)]
    /\ UNCHANGED <<screen, rows, raPc, itemCount, last>>
    /\ UNCHANGED <<pageVars, shopVars, suiteVars, storeVars>>

\* A getCartItems() that takes the first row out of the table as it reads.
GetCartItemsCallConsuming ==
    /\ CartIdle
    /\ LET got == GetCartItems(screen, rows)
       IN  seen' = [seen EXCEPT !.called = IF seen.called < 2 THEN seen.called + 1 ELSE 2,
                                !.prev = seen.items,
                                !.prevThrew = seen.threw,
                                !.items = got.items,
                                !.threw = got.threw]
    /\ rows' = IF rows = <<>> THEN rows ELSE Tail(rows)
    /\ UNCHANGED <<screen, raPc, itemCount, last>>
    /\ UNCHANGED <<pageVars, shopVars, suiteVars, storeVars>>

\* A scenario calls CartPage.getCartItems()
GetCartItemsCall ==
    /\ CartIdle
    /\ LET got == GetCartItems(screen, rows)
       IN  seen' = [seen EXCEPT !.called = IF seen.called < 2 THEN seen.called + 1 ELSE 2,
                                !.prev = seen.items,
                                !.prevThrew = seen.threw,
                                !.items = got.items,
                                !.threw = got.threw]
    /\ UNCHANGED <<screen, rows, raPc, itemCount, last>>
    /\ UNCHANGED <<pageVars, shopVars, suiteVars, storeVars>>

\* items.every(item => item.name.includes(itemName))
VerifyItemInCartEvery(scr, rs, itemName) ==
    LET got == GetCartItems(scr, rs)
    IN  [threw |-> got.threw,
         value |-> ~got.threw /\ \A i \in 1..Len(got.items) :
                                    Includes(got.items[i].name, itemName)]

\* CartPage.verifyItemInCart:
\* items.some(item => item.name.includes(itemName))
VerifyItemInCart(scr, rs, itemName) ==
    LET got == GetCartItems(scr, rs)
    IN  [threw |-> got.threw,
         value |-> ~got.threw /\ \E i \in 1..Len(got.items) :
                                    Includes(got.items[i].name, itemName)]

\* CartPage.calculateExpectedTotal: items.reduce over
\* parseFloat(item.price.replace(/[^\d.]/g, '')), from 0.
RECURSIVE SumPrices(_)
SumPrices(items) ==
    IF items = <<>> THEN Num(0)
    ELSE Plus(SumPrices(SubSeq(items, 1, Len(items) - 1)),
              ParseFloat(StripNonNumeric(items[Len(items)].price)))

CalculateExpectedTotal(scr, rs) ==
    LET got == GetCartItems(scr, rs)
    IN  [threw |-> got.threw, value |-> SumPrices(got.items)]

\* CartPage.getTotalPrice: expect('#totalp') visible, then its text; an
\* element without text is not visible.
GetTotalPrice(text) == [threw |-> text = <<>>, value |-> text]

\* CartPage.verifyTotalPrice
VerifyTotalPrice(scr, rs, text) ==
    LET expectedTotal == CalculateExpectedTotal(scr, rs)
        shown == GetTotalPrice(text)
        actualTotal == ParseFloat(StripNonNumeric(shown.value))
    IN  [threw |-> expectedTotal.threw \/ shown.threw,
         value |-> Within(expectedTotal.value, actualTotal)]

\* A scenario calls CartPage.calculateExpectedTotal()
CalculateExpectedTotalCall ==
    /\ CartIdle
    /\ LET r == CalculateExpectedTotal(screen, rows)
       IN  seen' = [seen EXCEPT !.total.calcCalled = TRUE,
                                !.total.expected = r.value]
    /\ UNCHANGED <<screen, rows, raPc, itemCount, last>>
    /\ UNCHANGED <<pageVars, shopVars, suiteVars, storeVars>>

\* A scenario calls CartPage.verifyTotalPrice()
VerifyTotalPriceCall ==
    /\ CartIdle
    /\ LET r == VerifyTotalPrice(screen, rows, totalp)
       IN  seen' = [seen EXCEPT !.total.verifyCalled = TRUE,
                                !.total.ok = r.value,
                                !.total.threw = r.threw]
    /\ UNCHANGED <<screen, rows, raPc, itemCount, last>>
    /\ UNCHANGED <<pageVars, shopVars, suiteVars, storeVars>>

\* A scenario calls CartPage.verifyItemInCart(itemName)
VerifyItemInCartCall(itemName) ==
    /\ CartIdle
    /\ LET v == VerifyItemInCart(screen, rows, itemName)
       IN  seen' = [seen EXCEPT !.verify = [called |-> TRUE, arg |-> itemName,
                                            value |-> v.value, threw |-> v.threw]]
    /\ UNCHANGED <<screen, rows, raPc, itemCount, last>>
    /\ UNCHANGED <<pageVars, shopVars, suiteVars, storeVars>>

\* CartPage.removeItemByName(itemName)
RemoveItemByName(itemName) ==
    /\ CartIdle
    /\ LET got == GetCartItems(screen, rows)
           itemIndex == FindIndex(got.items, itemName)
           rec(o, e) == [op |-> "removeItemByName", arg |-> itemName,
                         before |-> rows, outcome |-> o, effective |-> e]
       IN  IF got.threw
           THEN /\ last' = rec("timeout", TRUE)
                /\ rows' = rows
           ELSE IF itemIndex >= 0
           THEN IF itemIndex + 1 > Len(DeleteButtonRows(rows, 1))
                THEN /\ last' = rec("timeout", TRUE)
                     /\ rows' = rows
                ELSE \E effective \in BOOLEAN :
                        /\ rows' = AfterDeleteClick(rows, itemIndex, effective)
                        /\ last' = rec("returned", effective)
           ELSE /\ last' = rec("notfound", TRUE)
                /\ rows' = rows
    /\ seen' = NoSeen
    /\ UNCHANGED <<screen, raPc, itemCount>>
    /\ UNCHANGED <<pageVars, shopVars, suiteVars, storeVars>>

\* while (itemCount > 0)
RemoveAllContinueOffByOne(n) == n > 1

RemoveAllContinue(n) == n > 0

\* CartPage.removeAllItems: let itemCount = await this.getCartItemCount()
RemoveAllStart ==
    /\ CartIdle
    /\ itemCount' = GetCartItemCount(screen, rows)
    /\ raPc' = "test"
    /\ last' = [op |-> "removeAllItems", arg |-> <<>>, before |-> rows,
                outcome |-> "running", effective |-> TRUE]
    /\ UNCHANGED <<screen, rows, seen>>
    /\ UNCHANGED <<pageVars, shopVars, suiteVars, storeVars>>

\* the loop test
RemoveAllTest ==
    /\ raPc = "test"
    /\ IF RemoveAllContinue(itemCount)
       THEN /\ raPc' = "click"
            /\ last' = last
       ELSE /\ raPc' = "done"
            /\ last' = [last EXCEPT !.outcome = "returned"]
    /\ UNCHANGED <<screen, rows, itemCount, seen>>
    /\ UNCHANGED <<pageVars, shopVars, suiteVars, storeVars>>

\* the loop body: click the first delete link, wait, count again
RemoveAllClick ==
    /\ raPc = "click"
    /\ IF DeleteButtonRows(rows, 1) = <<>>
       THEN /\ raPc' = "done"
            /\ last' = [last EXCEPT !.outcome = "timeout"]
            /\ UNCHANGED <<rows, itemCount>>
       ELSE \E effective \in BOOLEAN :
               /\ rows' = AfterDeleteClick(rows, 0, effective)
               /\ itemCount' = GetCartItemCount(screen, rows')
               /\ last' = [last EXCEPT !.effective = last.effective /\ effective]
               /\ raPc' = "test"
    /\ seen' = NoSeen
    /\ UNCHANGED screen
    /\ UNCHANGED <<pageVars, shopVars, suiteVars, storeVars>>

\* removeAllItems has returned to its caller
RemoveAllReturn ==
    /\ raPc = "done"
    /\ raPc' = "idle"
    /\ UNCHANGED <<screen, rows, itemCount, last, seen>>
    /\ UNCHANGED <<pageVars, shopVars, suiteVars, storeVars>>

RemoveAllStep == RemoveAllTest \/ RemoveAllClick \/ RemoveAllReturn

\* =================================================================== page
\* Operations of AuthenticationPage, ContactPage, ProductPage and HomePage
\* on one page (one driver handle), with the page's native dialogs.

MaxOps == 2

Ops == 1..MaxOps

\* Dialog texts of the remote application.
SignUpOk == <<"Sign", "up", "successful", ".">>
UserExists == <<"This", "user", "already", "exist", ".">>
WrongPassword == <<"Wrong", "password", ".">>
NoSuchUser == <<"User", "does", "not", "exist", ".">>
Thanks == <<"Thanks", "for", "the", "message", "!!">>
ProductAdded == <<"Product", "added", ".">>

\* alertMessage.includes('Sign up successful')
SuccessText == <<"Sign", "up", "successful">>
\* expect(dialog.message()).toContain('Product added')
AddedText == <<"Product", "added">>

OnceKinds == { "signUp", "attemptSignUpWithExistingUser",
               "attemptLoginWithInvalidCredentials",
               "sendMessage", "sendEmptyForm", "sendPartialForm" }
Kinds == OnceKinds \cup { "login", "addToCart" }

\* The modal an operation waits for (waitForLoginModal, waitForSignUpModal,
\* waitForContactModal); addToCart needs none.
RequiredModal(kind) ==
    CASE kind \in { "signUp", "attemptSignUpWithExistingUser" } -> "signup"
      [] kind \in { "login", "attemptLoginWithInvalidCredentials" } -> "login"
      [] kind \in { "sendMessage", "sendEmptyForm", "sendPartialForm" } -> "contact"
      [] OTHER -> "none"

\* The button an operation clicks.
Button(kind) ==
    CASE kind \in { "signUp", "attemptSignUpWithExistingUser" } -> "register"
      [] kind \in { "login", "attemptLoginWithInvalidCredentials" } -> "logIn"
      [] kind \in { "sendMessage", "sendEmptyForm", "sendPartialForm" } -> "send"
      [] OTHER -> "addToCart"

\* The statements of an operation that touch the page, in program order.
\* signUp, the attempt* and the send* operations: wait for the modal, fill,
\* page.once('dialog', ...), click, waitForTimeout(2000), return.
OnceProgram == <<"modal", "once", "click", "sleep", "return">>

\* login: wait for the modal, fill, click, expect the modal hidden,
\* try { expect the welcome landmark } catch {}.
LoginProgram == <<"modal", "click", "hidden", "welcome">>

\* addToCart: waitForEvent('dialog'), click, await the dialog, assert its
\* text, accept it.
AddToCartProgram == <<"waitForEvent", "click", "await", "assert", "accept">>

Program(kind) ==
    IF kind \in OnceKinds THEN OnceProgram
    ELSE IF kind = "login" THEN LoginProgram
    ELSE AddToCartProgram

Idle == [id |-> 0, pc |-> 0]
NoRes == [kind |-> "none", outcome |-> "none", value |-> <<>>]
NoHeard == [from |-> 0, msg |-> <<>>]
NoDlg == [status |-> "none", msg |-> <<>>, receivers |-> <<>>, accepts |-> 0]
NoAux == [kind |-> "none", outcome |-> "none", value |-> FALSE, pre |-> "out"]

Kind == res[cur.id].kind
Step == IF cur.id = 0 THEN "idle" ELSE Program(Kind)[cur.pc]

\* The operation in progress moves to its next statement, or returns `v`
\* when that was its last one.
Advance(v) ==
    IF cur.pc < Len(Program(Kind))
    THEN /\ cur' = [cur EXCEPT !.pc = cur.pc + 1]
         /\ res' = res
    ELSE /\ cur' = Idle
         /\ res' = [res EXCEPT ![cur.id].outcome = "returned",
                               ![cur.id].value = v]

\* The operation in progress throws.
Throw ==
    /\ cur' = Idle
    /\ res' = [res EXCEPT ![cur.id].outcome = "threw"]

DialogOpen == \E o \in Ops : dlg[o].status = "open"

\* What the remote page does once a dialog is closed: after the sign-up
\* confirmation it hides the sign-up modal.
ModalAfterClose(msg, m) ==
    IF msg = SignUpOk /\ m = "signup" THEN "none" ELSE m

\* A scenario calls one page-object operation at a time.
StartOp(kind) ==
    /\ cur = Idle
    /\ opCount < MaxOps
    /\ opCount' = opCount + 1
    /\ cur' = [id |-> opCount + 1, pc |-> 1]
    /\ res' = [res EXCEPT ![opCount + 1] =
                  [kind |-> kind, outcome |-> "running", value |-> <<>>]]
    /\ UNCHANGED <<modal, session, listeners, heard, remote, dlg, aux>>
    /\ UNCHANGED <<cartVars, shopVars, suiteVars, storeVars>>

\* waitForLoginModal / waitForSignUpModal / waitForContactModal, then fill
WaitForModal ==
    /\ Step = "modal"
    /\ IF modal = RequiredModal(Kind) THEN Advance(<<>>) ELSE Throw
    /\ UNCHANGED <<modal, session, listeners, opCount, heard, remote, dlg, aux>>
    /\ UNCHANGED <<cartVars, shopVars, suiteVars, storeVars>>

\* this.page.once('dialog', async dialog => { ... })
RegisterOnce ==
    /\ Step = "once"
    /\ listeners' = Append(listeners, [id |-> cur.id, kind |-> "once"])
    /\ Advance(<<>>)
    /\ UNCHANGED <<modal, session, opCount, heard, remote, dlg, aux>>
    /\ UNCHANGED <<cartVars, shopVars, suiteVars, storeVars>>

\* const dialogPromise = this.page.waitForEvent('dialog')
WaitForEvent ==
    /\ Step = "waitForEvent"
    /\ listeners' = Append(listeners, [id |-> cur.id, kind |-> "waiter"])
    /\ Advance(<<>>)
    /\ UNCHANGED <<modal, session, opCount, heard, remote, dlg, aux>>
    /\ UNCHANGED <<cartVars, shopVars, suiteVars, storeVars>>

\* await this.page.locator(<button>).click(): the request leaves for the
\* remote application, which answers later.
Click ==
    /\ Step = "click"
    /\ remote' = [remote EXCEPT ![cur.id] = Button(Kind)]
    /\ Advance(<<>>)
    /\ UNCHANGED <<modal, session, listeners, opCount, heard, dlg, aux>>
    /\ UNCHANGED <<cartVars, shopVars, suiteVars, storeVars>>

\* await this.page.waitForTimeout(2000): over whether or not the answer came
Sleep ==
    /\ Step = "sleep"
    /\ Advance(<<>>)
    /\ UNCHANGED <<modal, session, listeners, opCount, heard, remote, dlg, aux>>
    /\ UNCHANGED <<cartVars, shopVars, suiteVars, storeVars>>

\* signUp: const isSuccess = alertMessage.includes('Sign up successful')
IsSuccess(alertMessage) == Includes(alertMessage, SuccessText)

\* The end of signUp (isSuccess, expect the modal hidden, return isSuccess)
\* and of the attempt* and send* operations (return alertMessage).
Return ==
    /\ Step = "return"
    /\ LET alertMessage == heard[cur.id].msg
       IN  IF Kind = "signUp"
           THEN IF IsSuccess(alertMessage) /\ modal = "signup"
                THEN Throw
                ELSE Advance(IsSuccess(alertMessage))
           ELSE Advance(alertMessage)
    /\ UNCHANGED <<modal, session, listeners, opCount, heard, remote, dlg, aux>>
    /\ UNCHANGED <<cartVars, shopVars, suiteVars, storeVars>>

\* login: await expect(loginModal).toBeHidden(), outside the try block.
\* The remote application answers a click within the expect timeout.
ExpectHidden ==
    /\ Step = "hidden"
    /\ remote[cur.id] = "done"
    /\ IF modal = "login" THEN Throw ELSE Advance(<<>>)
    /\ UNCHANGED <<modal, session, listeners, opCount, heard, remote, dlg, aux>>
    /\ UNCHANGED <<cartVars, shopVars, suiteVars, storeVars>>

\* login: try { await expect(welcomeMessage).toBeVisible({timeout: 5000}) }
\* catch {}: the landmark renders in time or the timeout is swallowed.
ExpectWelcome ==
    /\ Step = "welcome"
    /\ \E inTime \in BOOLEAN :
          session' = IF session = "pending" /\ inTime THEN "in" ELSE session
    /\ Advance(<<>>)
    /\ UNCHANGED <<modal, listeners, opCount, heard, remote, dlg, aux>>
    /\ UNCHANGED <<cartVars, shopVars, suiteVars, storeVars>>

\* addToCart: const dialog = await dialogPromise
AwaitDialog ==
    /\ Step = "await"
    /\ heard[cur.id].from # 0
    /\ Advance(<<>>)
    /\ UNCHANGED <<modal, session, listeners, opCount, heard, remote, dlg, aux>>
    /\ UNCHANGED <<cartVars, shopVars, suiteVars, storeVars>>

\* An addToCart that does not look at the text of the dialog.
AssertDialogSkipped ==
    /\ Step = "assert"
    /\ Advance(<<>>)
    /\ UNCHANGED <<modal, session, listeners, opCount, heard, remote, dlg, aux>>
    /\ UNCHANGED <<cartVars, shopVars, suiteVars, storeVars>>

\* addToCart: expect(dialog.message()).toContain('Product added')
AssertDialog ==
    /\ Step = "assert"
    /\ IF Includes(heard[cur.id].msg, AddedText) THEN Advance(<<>>) ELSE Throw
    /\ UNCHANGED <<modal, session, listeners, opCount, heard, remote, dlg, aux>>
    /\ UNCHANGED <<cartVars, shopVars, suiteVars, storeVars>>

\* addToCart: await dialog.accept(); accepting a dialog that a listener has
\* already accepted throws.
AcceptDialog ==
    /\ Step = "accept"
    /\ LET d == heard[cur.id].from
       IN  /\ dlg' = [dlg EXCEPT ![d].accepts = dlg[d].accepts + 1,
                                 ![d].status = "accepted"]
           /\ IF dlg[d].accepts > 0
              THEN Throw /\ modal' = modal
              ELSE /\ Advance(<<>>)
                   /\ modal' = ModalAfterClose(dlg[d].msg, modal)
    /\ UNCHANGED <<session, listeners, opCount, heard, remote, aux>>
    /\ UNCHANGED <<cartVars, shopVars, suiteVars, storeVars>>

\* The page emits 'dialog' for the dialog that operation o's click raised:
\* every registered listener is called, in registration order, and every one
\* of them is removed (once-listeners and the waiter both fire once).  A
\* once-listener stores the text and calls dialog.accept(); the waiter hands
\* the dialog to addToCart.  With no listener the dialog is dismissed.
RaiseDialog(o, msg) ==
    LET fired == { listeners[i].id : i \in 1..Len(listeners) }
        onces == { i \in 1..Len(listeners) : listeners[i].kind = "once" }
        closed == onces # {} \/ listeners = <<>>
    IN  /\ heard' = [p \in Ops |->
                        IF p \in fired THEN [from |-> o, msg |-> msg] ELSE heard[p]]
        /\ dlg' = [dlg EXCEPT ![o] =
                      [status |-> IF onces # {} THEN "accepted"
                                  ELSE IF listeners = <<>> THEN "dismissed"
                                  ELSE "open",
                       msg |-> msg,
                       receivers |-> [i \in 1..Len(listeners) |-> listeners[i].id],
                       accepts |-> Cardinality(onces)]]
        /\ listeners' = <<>>
        /\ modal' = IF closed THEN ModalAfterClose(msg, modal) ELSE modal

\* The remote application answers the click of operation o: register() and
\* send() and addToCart() raise an alert; logIn() either starts the session
\* (the page reloads, the modal is gone) or raises an alert and leaves the
\* modal open.
RemoteAnswer(o) ==
    /\ remote[o] \notin { "none", "done" }
    /\ ~DialogOpen
    /\ remote' = [remote EXCEPT ![o] = "done"]
    /\ CASE remote[o] = "register" ->
              /\ \E msg \in { SignUpOk, UserExists } : RaiseDialog(o, msg)
              /\ session' = session
         [] remote[o] = "send" ->
              /\ RaiseDialog(o, Thanks)
              /\ session' = session
         [] remote[o] = "addToCart" ->
              /\ RaiseDialog(o, ProductAdded)
              /\ session' = session
         [] remote[o] = "logIn" ->
              \/ /\ session' = "pending"
                 /\ modal' = "none"
                 /\ UNCHANGED <<heard, dlg, listeners>>
              \/ /\ \E msg \in { WrongPassword, NoSuchUser } : RaiseDialog(o, msg)
                 /\ session' = session
    /\ basket' = IF remote[o] = "addToCart" THEN Append(basket, product) ELSE basket
    /\ UNCHANGED <<opCount, cur, res, aux, product, totalp>>
    /\ UNCHANGED <<cartVars, suiteVars, storeVars>>

\* The welcome landmark and the logout link of a started session render.
LandmarkRenders ==
    /\ session = "pending"
    /\ session' = "in"
    /\ UNCHANGED <<modal, listeners, opCount, cur, res, heard, remote, dlg, aux>>
    /\ UNCHANGED <<cartVars, shopVars, suiteVars, storeVars>>

\* HomePage.clickLogin / clickSignUp / clickContact
OpenModal(m) ==
    /\ cur = Idle
    /\ modal = "none"
    /\ modal' = m
    /\ UNCHANGED <<session, listeners, opCount, cur, res, heard, remote, dlg, aux>>
    /\ UNCHANGED <<cartVars, shopVars, suiteVars, storeVars>>

\* closeLoginModal / closeSignUpModal / closeContactModal
CloseModal ==
    /\ cur = Idle
    /\ modal # "none"
    /\ modal' = "none"
    /\ UNCHANGED <<session, listeners, opCount, cur, res, heard, remote, dlg, aux>>
    /\ UNCHANGED <<cartVars, shopVars, suiteVars, storeVars>>

\* try { await <landmark visible within 2000 ms>; return true }
\* catch { return false }
ProbeUncaught(visible) ==
    IF visible THEN [outcome |-> "returned", value |-> TRUE]
    ELSE [outcome |-> "threw", value |-> FALSE]

Probe(visible) == [outcome |-> "returned", value |-> visible]

\* AuthenticationPage.isLoggedIn (landmark '#nameofuser') and
\* HomePage.isUserLoggedIn (landmark 'a#logout2')
IsLoggedIn(kind) ==
    /\ cur = Idle
    /\ \E inTime \in BOOLEAN :
          LET visible == session = "in" \/ (session = "pending" /\ inTime)
          IN  /\ session' = IF visible THEN "in" ELSE session
              /\ aux' = [kind |-> kind, outcome |-> Probe(visible).outcome,
                         value |-> Probe(visible).value,
                         pre |-> IF visible THEN "in" ELSE "out"]
    /\ UNCHANGED <<modal, listeners, opCount, cur, res, heard, remote, dlg>>
    /\ UNCHANGED <<cartVars, shopVars, suiteVars, storeVars>>

\* A logout that checks the button and returns without clicking it.
AuthLogoutNoClick ==
    /\ cur = Idle
    /\ \E inTime \in BOOLEAN :
          LET visible == session = "in" \/ (session = "pending" /\ inTime)
          IN  /\ session' = session
              /\ aux' = [kind |-> "AuthenticationPage.logout",
                         outcome |-> IF visible THEN "returned" ELSE "threw",
                         value |-> FALSE, pre |-> session]
    /\ UNCHANGED <<modal, listeners, opCount, cur, res, heard, remote, dlg>>
    /\ UNCHANGED <<cartVars, shopVars, suiteVars, storeVars>>

\* AuthenticationPage.logout: expect the logout button visible, click it,
\* expect the welcome landmark hidden and the login link visible.
AuthLogout ==
    /\ cur = Idle
    /\ \E inTime \in BOOLEAN :
          LET visible == session = "in" \/ (session = "pending" /\ inTime)
          IN  /\ session' = IF visible THEN "out" ELSE session
              /\ aux' = [kind |-> "AuthenticationPage.logout",
                         outcome |-> IF visible THEN "returned" ELSE "threw",
                         value |-> FALSE, pre |-> session]
    /\ UNCHANGED <<modal, listeners, opCount, cur, res, heard, remote, dlg>>
    /\ UNCHANGED <<cartVars, shopVars, suiteVars, storeVars>>

\* HomePage.logout: if (await this.isUserLoggedIn()) { click; wait for the
\* login link } and nothing otherwise.
HomeLogout ==
    /\ cur = Idle
    /\ \E inTime \in BOOLEAN :
          LET visible == session = "in" \/ (session = "pending" /\ inTime)
          IN  /\ session' = IF Probe(visible).value THEN "out" ELSE session
              /\ aux' = [kind |-> "HomePage.logout", outcome |-> "returned",
                         value |-> FALSE, pre |-> session]
    /\ UNCHANGED <<modal, listeners, opCount, cur, res, heard, remote, dlg>>
    /\ UNCHANGED <<cartVars, shopVars, suiteVars, storeVars>>

\* AuthenticationPage.verifyLoggedOut: expect the welcome landmark hidden,
\* the logout button hidden and the login link visible; an expectation that
\* is not met within its timeout throws.
VerifyLoggedOut(landmarkVisible) ==
    IF landmarkVisible THEN "threw" ELSE "returned"

VerifyLoggedOutCall ==
    /\ cur = Idle
    /\ \E inTime \in BOOLEAN :
          LET visible == session = "in" \/ (session = "pending" /\ inTime)
          IN  /\ session' = IF visible THEN "in" ELSE session
              /\ aux' = [kind |-> "verifyLoggedOut",
                         outcome |-> VerifyLoggedOut(visible),
                         value |-> FALSE, pre |-> session]
    /\ UNCHANGED <<modal, listeners, opCount, cur, res, heard, remote, dlg>>
    /\ UNCHANGED <<cartVars, shopVars, suiteVars, storeVars>>

PageStart ==
    /\ modal = "none"
    /\ session = "out"
    /\ listeners = <<>>
    /\ opCount = 0
    /\ cur = Idle
    /\ res = [o \in Ops |-> NoRes]
    /\ heard = [o \in Ops |-> NoHeard]
    /\ remote = [o \in Ops |-> "none"]
    /\ dlg = [o \in Ops |-> NoDlg]
    /\ aux = NoAux

CartStart ==
    /\ screen = "home"
    /\ rows = <<>>
    /\ raPc = "idle"
    /\ itemCount = 0
    /\ last = NoOp
    /\ seen = NoSeen

\* The product page that is open, and an empty remote cart.
ShopStart ==
    /\ product = [name |-> <<"Sony">>, price |-> <<"790">>]
    /\ basket = <<>>
    /\ totalp = <<>>

\* An empty contact form, not yet validated.
NoValidation == [called |-> FALSE, isValid |-> TRUE, errors |-> <<>>]

FormStart ==
    /\ form = [email |-> <<>>, name |-> <<>>, message |-> <<>>]
    /\ validation = NoValidation

\* No scenario started.  pc: "idle", "body", "screenshot", "probe",
\* "logout", "done"; left: statements of the body still to run; failed: an
\* operation or assertion of the body has failed; status: what the runner
\* reports for the scenario.
NoRun == [test |-> "none", pc |-> "idle", left |-> 0, failed |-> FALSE,
          status |-> "none", endSession |-> "out", probe |-> FALSE,
          logoutAttempted |-> FALSE, logoutThrew |-> FALSE]

RunStart == run = NoRun

\* The clock at the start, and no user generated yet.
DataStart ==
    /\ now = 0
    /\ made = <<>>

\* after: the number of operations the scenario had called before.
NoVerified == [called |-> FALSE, arg |-> <<>>, outcome |-> "none", after |-> 0]

\* No user generated, no account registered, nobody welcomed.
AccountStart ==
    /\ user = <<>>
    /\ accounts = {}
    /\ welcome = <<>>
    /\ verified = NoVerified

SuiteStart == FormStart /\ RunStart /\ DataStart /\ AccountStart

\* Order form fields, in the order fillOrderForm fills them.
FieldNames == { "name", "country", "city", "creditCard", "month", "year" }

NoFields == [f \in FieldNames |-> <<>>]

\* Cart page as loaded: order modal hidden, form empty, no success panel.
NoOrder == [modalOpen |-> FALSE, fields |-> NoFields, panel |-> <<>>]

CheckoutStart ==
    /\ order = NoOrder
    /\ trail = <<>>

NoNav == [arg |-> "none", pc |-> "idle", outcome |-> "none",
          clicked |-> FALSE, waited |-> FALSE, before |-> "none", at |-> "none"]

\* Home page as loaded: the grid lists every product, nothing pending.
GridStart ==
    /\ grid = [shown |-> "all", pending |-> "none"]
    /\ nav = NoNav

StoreStart == CheckoutStart /\ GridStart

Init == PageStart /\ CartStart /\ ShopStart /\ SuiteStart /\ StoreStart

Next ==
    \/ \E kind \in Kinds : StartOp(kind)
    \/ WaitForModal
    \/ RegisterOnce
    \/ WaitForEvent
    \/ Click
    \/ Sleep
    \/ Return
    \/ ExpectHidden
    \/ ExpectWelcome
    \/ AwaitDialog
    \/ AssertDialog
    \/ AcceptDialog
    \/ \E o \in Ops : RemoteAnswer(o)
    \/ LandmarkRenders
    \/ \E m \in { "login", "signup", "contact" } : OpenModal(m)
    \/ CloseModal

Spec == Init /\ [][Next]_vars

\* The session operations alone: login and its probes and logouts.
LoginKinds == { "login", "attemptLoginWithInvalidCredentials" }

AuthNext ==
    \/ \E kind \in LoginKinds : StartOp(kind)
    \/ WaitForModal
    \/ RegisterOnce
    \/ Click
    \/ Sleep
    \/ Return
    \/ ExpectHidden
    \/ ExpectWelcome
    \/ \E o \in Ops : RemoteAnswer(o)
    \/ LandmarkRenders
    \/ OpenModal("login")
    \/ CloseModal
    \/ \E kind \in { "isLoggedIn", "isUserLoggedIn" } : IsLoggedIn(kind)
    \/ AuthLogout
    \/ HomeLogout
    \/ VerifyLoggedOutCall

AuthSpec == Init /\ [][AuthNext]_vars

\* ------------------------------------------------------- specifications
CartInit ==
    /\ screen \in Screens
    /\ rows \in CartsOf(screen)
    /\ raPc = "idle"
    /\ itemCount = 0
    /\ last = NoOp
    /\ seen = NoSeen
    /\ PageStart
    /\ ShopStart
    /\ SuiteStart
    /\ StoreStart

CartNext ==
    \/ \E itemName \in ArgNames : RemoveItemByName(itemName)
    \/ GetCartItemCountCall
    \/ GetCartItemsCall
    \/ RemoveAllStart
    \/ RemoveAllTest
    \/ RemoveAllClick
    \/ RemoveAllReturn

CartSpec == CartInit /\ [][CartNext]_vars

\* The continuation of a started removeAllItems always runs.
FairCartSpec == CartSpec /\ WF_vars(RemoveAllStep)

\* ---------------------------------------------------------------- shopping
\* HomePage.clickProductByName: the page of product p opens.
OpenProduct(p) ==
    /\ cur = Idle
    /\ CartIdle
    /\ product' = p
    /\ screen' = "home"
    /\ rows' = <<>>
    /\ seen' = NoSeen
    /\ UNCHANGED <<raPc, itemCount, last, basket, totalp>>
    /\ UNCHANGED <<pageVars, suiteVars, storeVars>>

\* HomePage.clickCart: cart.html opens and lists the remote cart.
ClickCart ==
    /\ cur = Idle
    /\ CartIdle
    /\ screen' = "cart"
    /\ rows' = basket
    /\ seen' = NoSeen
    /\ UNCHANGED <<raPc, itemCount, last>>
    /\ UNCHANGED <<pageVars, shopVars, suiteVars, storeVars>>

ShopInit ==
    /\ PageStart
    /\ CartStart
    /\ product \in ProductRows
    /\ basket = <<>>
    /\ totalp = <<>>
    /\ SuiteStart
    /\ StoreStart

ShopNext ==
    \/ \E p \in ProductRows : OpenProduct(p)
    \/ (screen # "cart" /\ StartOp("addToCart"))
    \/ WaitForEvent
    \/ Click
    \/ AwaitDialog
    \/ AssertDialog
    \/ AcceptDialog
    \/ \E o \in Ops : RemoteAnswer(o)
    \/ ClickCart
    \/ GetCartItemCountCall
    \/ \E itemName \in ArgNames : VerifyItemInCartCall(itemName)

ShopSpec == ShopInit /\ [][ShopNext]_vars

\* ------------------------------------------------------------------ totals
\* Price cells and displayed totals, character by character.
PriceTexts == { <<"2">>,
                <<" ", "$", "1", ".", "5">>,
                <<"1", ",", "0", "0", "0", ".", "2", "5">> }

TotalTexts == { <<"2">>,
                <<"3", ".", "5">>,
                <<"T", "o", "t", "a", "l", " ", "3", ".", "5", "0", "5">>,
                <<"3", ".", "5", "2">>,
                <<"1", "0", "0", "3", ".", "7", "5">>,
                <<"-">> }

PricedRows == [name : { <<"Sony">> }, price : PriceTexts]

TotalInit ==
    /\ screen = "cart"
    /\ rows \in SeqsUpTo(PricedRows, MaxRows) \ { <<>> }
    /\ totalp \in TotalTexts
    /\ raPc = "idle"
    /\ itemCount = 0
    /\ last = NoOp
    /\ seen = NoSeen
    /\ PageStart
    /\ product = [name |-> <<"Sony">>, price |-> <<"790">>]
    /\ basket = <<>>
    /\ SuiteStart
    /\ StoreStart

TotalNext ==
    \/ CalculateExpectedTotalCall
    \/ VerifyTotalPriceCall

TotalSpec == TotalInit /\ [][TotalNext]_vars

\* ------------------------------------------------------------ contact form
\* Values of the form's inputs, character by character.
Emails == { <<>>, <<" ">>, <<"a">>, <<"@">>, <<"a", "@", "b">>, <<"a", ".", "b">> }
PersonNames == { <<>>, <<" ">>, <<"n">> }
Messages == { <<>>, <<"m">>, <<"@">> }

\* A validation that stops at the first violated rule.
VerifyFormValidationFirstOnly(email, name, message) ==
    LET errors ==
          IF email = <<>> THEN <<"Email is required">>
          ELSE IF name = <<>> THEN <<"Name is required">>
          ELSE IF message = <<>> THEN <<"Message is required">>
          ELSE IF ~Includes(email, <<"@">>) THEN <<"Invalid email format">>
          ELSE <<>>
    IN  [isValid |-> errors = <<>>, errors |-> errors]

\* ContactPage.verifyFormValidation on the three input values: the four
\* checks in program order, each pushing its error and clearing isValid.
VerifyFormValidation(email, name, message) ==
    LET e1 == IF email = <<>> THEN <<"Email is required">> ELSE <<>>
        e2 == IF name = <<>> THEN <<"Name is required">> ELSE <<>>
        e3 == IF message = <<>> THEN <<"Message is required">> ELSE <<>>
        e4 == IF email # <<>> /\ ~Includes(email, <<"@">>)
              THEN <<"Invalid email format">> ELSE <<>>
    IN  [isValid |-> ~(\/ email = <<>>
                       \/ name = <<>>
                       \/ message = <<>>
                       \/ (email # <<>> /\ ~Includes(email, <<"@">>))),
         errors |-> e1 \o e2 \o e3 \o e4]

\* A scenario calls ContactPage.verifyFormValidation()
VerifyFormValidationCall ==
    /\ LET r == VerifyFormValidation(form.email, form.name, form.message)
       IN  validation' = [called |-> TRUE, isValid |-> r.isValid,
                          errors |-> r.errors]
    /\ UNCHANGED <<form, run, dataVars, accountVars>>
    /\ UNCHANGED <<cartVars, pageVars, shopVars, storeVars>>

FormInit ==
    /\ form \in [email : Emails, name : PersonNames, message : Messages]
    /\ validation = NoValidation
    /\ RunStart
    /\ DataStart
    /\ AccountStart
    /\ PageStart
    /\ CartStart
    /\ ShopStart
    /\ StoreStart

FormNext == VerifyFormValidationCall

FormSpec == FormInit /\ [][FormNext]_vars

\* --------------------------------------------------------------- scenarios
\* Scenarios of the suite: whether the body is wrapped in
\* try { ... } catch (error) { console.log(...) }, and the number of awaited
\* operations and assertions in the body.
Scenarios ==
    { [name |-> "Should display products on home page",
       wrapped |-> TRUE, steps |-> 3],
      [name |-> "Should complete purchase with valid order details",
       wrapped |-> TRUE, steps |-> 13],
      [name |-> "Should successfully login with valid credentials",
       wrapped |-> FALSE, steps |-> 6] }

\* A hook whose cleanup is not inside try/catch.
HookStatusUncaught(bodyStatus, cleanupThrew) ==
    IF cleanupThrew THEN "failed" ELSE bodyStatus

\* afterEach: try { if (await isLoggedIn()) await logout() } catch {}: what
\* the cleanup throws never reaches the runner.
HookStatus(bodyStatus, cleanupThrew) == bodyStatus

\* The runner starts a scenario on a fresh page (beforeEach).
ScenarioStart(t) ==
    /\ run.pc = "idle"
    /\ cur = Idle
    /\ run' = [NoRun EXCEPT !.test = t.name, !.pc = "body", !.left = t.steps]
    /\ session' = "out"
    /\ UNCHANGED <<modal, listeners, opCount, cur, res, heard, remote, dlg, aux>>
    /\ UNCHANGED <<formVars, dataVars, accountVars>>
    /\ UNCHANGED <<cartVars, shopVars, storeVars>>

Wrapped(name) == \E t \in Scenarios : t.name = name /\ t.wrapped

\* A statement of the body succeeds; it may have logged a user in or out.
StepPasses ==
    /\ run.pc = "body"
    /\ run.left > 0
    /\ run' = [run EXCEPT !.left = run.left - 1]
    /\ session' \in { "out", "pending", "in" }
    /\ UNCHANGED <<modal, listeners, opCount, cur, res, heard, remote, dlg, aux>>
    /\ UNCHANGED <<formVars, dataVars, accountVars>>
    /\ UNCHANGED <<cartVars, shopVars, storeVars>>

\* A statement of the body throws: in a wrapped body the catch block logs
\* the error and the body ends normally; otherwise the scenario fails.
StepFails ==
    /\ run.pc = "body"
    /\ run.left > 0
    /\ run' = [run EXCEPT !.failed = TRUE,
                          !.left = 0,
                          !.pc = "screenshot",
                          !.status = IF Wrapped(run.test) THEN "passed" ELSE "failed",
                          !.endSession = session]
    /\ UNCHANGED pageVars
    /\ UNCHANGED <<formVars, dataVars, accountVars>>
    /\ UNCHANGED <<cartVars, shopVars, storeVars>>

\* The body ran to its end.
BodyEnds ==
    /\ run.pc = "body"
    /\ run.left = 0
    /\ run' = [run EXCEPT !.pc = "screenshot", !.status = "passed",
                          !.endSession = session]
    /\ UNCHANGED pageVars
    /\ UNCHANGED <<formVars, dataVars, accountVars>>
    /\ UNCHANGED <<cartVars, shopVars, storeVars>>

\* afterEach: console.log and page.screenshot
HookScreenshot ==
    /\ run.pc = "screenshot"
    /\ run' = [run EXCEPT !.pc = "probe"]
    /\ UNCHANGED pageVars
    /\ UNCHANGED <<formVars, dataVars, accountVars>>
    /\ UNCHANGED <<cartVars, shopVars, storeVars>>

\* afterEach: if (await authPage.isLoggedIn())
HookProbe ==
    /\ run.pc = "probe"
    /\ \E inTime \in BOOLEAN :
          LET visible == session = "in" \/ (session = "pending" /\ inTime)
              loggedIn == Probe(visible).value
          IN  /\ session' = IF visible THEN "in" ELSE session
              /\ run' = [run EXCEPT !.probe = loggedIn,
                                    !.pc = IF loggedIn THEN "logout" ELSE "done"]
    /\ UNCHANGED <<modal, listeners, opCount, cur, res, heard, remote, dlg, aux>>
    /\ UNCHANGED <<formVars, dataVars, accountVars>>
    /\ UNCHANGED <<cartVars, shopVars, storeVars>>

\* afterEach: await authPage.logout() inside the try block: its click and
\* expectations go through, or one of them times out and the catch block
\* logs the error.
HookLogout ==
    /\ run.pc = "logout"
    /\ \E ok \in BOOLEAN :
          /\ session' = IF ok THEN "out" ELSE session
          /\ run' = [run EXCEPT !.logoutAttempted = TRUE,
                                !.logoutThrew = ~ok,
                                !.status = HookStatus(run.status, ~ok),
                                !.pc = "done"]
    /\ UNCHANGED <<modal, listeners, opCount, cur, res, heard, remote, dlg, aux>>
    /\ UNCHANGED <<formVars, dataVars, accountVars>>
    /\ UNCHANGED <<cartVars, shopVars, storeVars>>

\* The runner reports the scenario and goes on to the next one.
ScenarioEnd ==
    /\ run.pc = "done"
    /\ run' = [run EXCEPT !.pc = "idle"]
    /\ UNCHANGED pageVars
    /\ UNCHANGED <<formVars, dataVars, accountVars>>
    /\ UNCHANGED <<cartVars, shopVars, storeVars>>

SuiteNext ==
    \/ \E t \in Scenarios : ScenarioStart(t)
    \/ StepPasses
    \/ StepFails
    \/ BodyEnds
    \/ HookScreenshot
    \/ HookProbe
    \/ HookLogout
    \/ ScenarioEnd

SuiteSpec == Init /\ [][SuiteNext]_vars

\* --------------------------------------------------------------- test data
MaxTime == 2
MaxUsers == 3

\* Workers of the runner (workers: 2).
Workers == { 1, 2 }

\* Math.random().toString(36).substring(7): what is left of the digits after
\* the seventh character, possibly nothing.
Suffixes == { <<>>, <<"k", "3">>, <<"z">> }

\* `sathish_auto_${Date.now()}_${suffix}`
Username(stamp, suffix) == <<"sathish_auto_", stamp, "_">> \o suffix

\* The clock advances.
Tick ==
    /\ now < MaxTime
    /\ now' = now + 1
    /\ UNCHANGED <<made, formVars, run, accountVars>>
    /\ UNCHANGED <<cartVars, pageVars, shopVars, storeVars>>

\* A scenario in worker w calls generateRandomUser(); suffix is what its
\* Math.random() yields.
GenerateRandomUser(w, suffix) ==
    /\ Len(made) < MaxUsers
    /\ made' = Append(made, [worker |-> w, username |-> Username(now, suffix)])
    /\ UNCHANGED <<now, formVars, run, accountVars>>
    /\ UNCHANGED <<cartVars, pageVars, shopVars, storeVars>>

DataNext ==
    \/ Tick
    \/ \E w \in Workers, suffix \in Suffixes : GenerateRandomUser(w, suffix)

DataSpec == Init /\ [][DataNext]_vars

\* ----------------------------------------------------------------- accounts
\* testUsers.existingUser.username
ExistingUser == <<"sathish_demo_user">>

\* Usernames a scenario gets from generateRandomUser(), the clock value
\* written out.
JourneyUsers == { Username("17", <<"k", "3">>), Username("18", <<>>) }

\* const randomUser = generateRandomUser()
TakeUser(u) ==
    /\ cur = Idle
    /\ user = <<>>
    /\ user' = u
    /\ UNCHANGED <<accounts, welcome, verified, formVars, run, dataVars>>
    /\ UNCHANGED <<cartVars, pageVars, shopVars, storeVars>>

\* The remote application answers the click of operation o for the
\* scenario's user: register() stores a new username and confirms it, or
\* refuses one it already has; logIn() starts the session of a registered
\* user (the page reloads, the modal is gone, the landmark will read
\* 'Welcome <username>'), or refuses with an alert and leaves the modal open.
AccountAnswer(o) ==
    /\ remote[o] \in { "register", "logIn" }
    /\ ~DialogOpen
    /\ remote' = [remote EXCEPT ![o] = "done"]
    /\ CASE remote[o] = "register" ->
              /\ RaiseDialog(o, IF user \in accounts THEN UserExists ELSE SignUpOk)
              /\ accounts' = accounts \cup { user }
              /\ UNCHANGED <<session, welcome>>
         [] remote[o] = "logIn" ->
              IF user \in accounts
              THEN /\ session' = "pending"
                   /\ modal' = "none"
                   /\ welcome' = <<"Welcome", " ">> \o user
                   /\ UNCHANGED <<heard, dlg, listeners, accounts>>
              ELSE /\ RaiseDialog(o, NoSuchUser)
                   /\ UNCHANGED <<session, welcome, accounts>>
    /\ UNCHANGED <<opCount, cur, res, aux>>
    /\ UNCHANGED <<user, verified, formVars, run, dataVars>>
    /\ UNCHANGED <<cartVars, shopVars, storeVars>>

\* verifyLoginSuccess with the landmark text compared for equality.
VerifyLoginSuccessExact(visible, welcomeText, expectedUsername) ==
    IF visible /\ welcomeText = expectedUsername THEN "returned" ELSE "threw"

\* AuthenticationPage.verifyLoginSuccess: the welcome landmark is visible,
\* its text contains expectedUsername, the logout button is visible.
VerifyLoginSuccess(visible, welcomeText, expectedUsername) ==
    IF visible /\ Includes(welcomeText, expectedUsername) THEN "returned" ELSE "threw"

\* A scenario calls authPage.verifyLoginSuccess(expectedUsername); the
\* landmark of a started session renders within the expect timeout.
VerifyLoginSuccessCall(expectedUsername) ==
    /\ cur = Idle
    /\ session # "pending"
    /\ verified' = [called |-> TRUE, arg |-> expectedUsername,
                    outcome |-> VerifyLoginSuccess(session = "in", welcome,
                                                   expectedUsername),
                    after |-> opCount]
    /\ UNCHANGED <<user, accounts, welcome, formVars, run, dataVars>>
    /\ UNCHANGED <<cartVars, pageVars, shopVars, storeVars>>

JourneyInit ==
    /\ PageStart
    /\ CartStart
    /\ ShopStart
    /\ FormStart
    /\ RunStart
    /\ DataStart
    /\ user = <<>>
    /\ accounts \in { { ExistingUser }, { ExistingUser, Username("18", <<>>) } }
    /\ welcome = <<>>
    /\ verified = NoVerified
    /\ StoreStart

\* What the operation in progress does next.
JourneyStep ==
    \/ WaitForModal
    \/ RegisterOnce
    \/ Click
    \/ Sleep
    \/ Return
    \/ ExpectHidden
    \/ ExpectWelcome

JourneyNext ==
    \/ \E u \in JourneyUsers : TakeUser(u)
    \/ \E m \in { "signup", "login" } : OpenModal(m)
    \/ \E kind \in { "signUp", "login" } : (user # <<>> /\ StartOp(kind))
    \/ JourneyStep
    \/ \E o \in Ops : AccountAnswer(o)
    \/ LandmarkRenders
    \/ \E u \in JourneyUsers : VerifyLoginSuccessCall(u)

JourneySpec == JourneyInit /\ [][JourneyNext]_vars

\* An operation in progress runs on, the remote application answers every
\* click, and the landmark of a started session renders.
FairJourneySpec ==
    /\ JourneySpec
    /\ WF_vars(JourneyStep)
    /\ WF_vars(\E o \in Ops : AccountAnswer(o))
    /\ WF_vars(LandmarkRenders)

\* ---------------------------------------------------------------- checkout
MaxCalls == 5

\* orderData.customer and orderData.invalidCustomer, and a customer who
\* leaves the card number out.
Customer ==
    [name |-> <<"Sathish", "Kumar">>, country |-> <<"India">>,
     city |-> <<"Bangalore">>, creditCard |-> <<"4111111111111111">>,
     month |-> <<"03">>, year |-> <<"2026">>]

InvalidCustomer ==
    [name |-> <<>>, country |-> <<>>, city |-> <<>>, creditCard |-> <<"1234">>,
     month |-> <<"13">>, year |-> <<"2020">>]

OrderDetails == { Customer, InvalidCustomer, [Customer EXCEPT !.creditCard = <<>>] }

\* Text of '.sweet-alert h2' after an accepted purchase.
ThankYou == <<"Thank", "you", "for", "your", "purchase!">>

\* The remote application accepts a purchase that has a name and a card
\* number; otherwise it raises an alert and shows no success panel.
PurchaseAccepted(fields) == fields.name # <<>> /\ fields.creditCard # <<>>

Called(op, arg, outcome, value) ==
    trail' = Append(trail, [op |-> op, arg |-> arg, outcome |-> outcome, value |-> value])

\* placeOrder: expect the Place Order button visible, click it, wait for
\* '#orderModal' to be visible.
PlaceOrder ==
    /\ Len(trail) < MaxCalls
    /\ LET clickable == screen = "cart" /\ ~order.modalOpen /\ order.panel = <<>>
       IN  /\ order' = IF clickable THEN [order EXCEPT !.modalOpen = TRUE] ELSE order
           /\ Called("placeOrder", <<>>, IF clickable THEN "returned" ELSE "threw", <<>>)
    /\ UNCHANGED <<cartVars, pageVars, shopVars, suiteVars, gridVars>>

\* A fillOrderForm that leaves the card number field untouched.
FillOrderFormNoCard(orderDetails) ==
    /\ Len(trail) < MaxCalls
    /\ order' = IF order.modalOpen
                THEN [order EXCEPT !.fields = [orderDetails EXCEPT !.creditCard = order.fields.creditCard]]
                ELSE order
    /\ Called("fillOrderForm", orderDetails,
              IF order.modalOpen THEN "returned" ELSE "threw", <<>>)
    /\ UNCHANGED <<cartVars, pageVars, shopVars, suiteVars, gridVars>>

\* fillOrderForm: expect '#name' visible, then fill the six fields verbatim.
FillOrderForm(orderDetails) ==
    /\ Len(trail) < MaxCalls
    /\ order' = IF order.modalOpen
                THEN [order EXCEPT !.fields = [f \in FieldNames |-> orderDetails[f]]]
                ELSE order
    /\ Called("fillOrderForm", orderDetails,
              IF order.modalOpen THEN "returned" ELSE "threw", <<>>)
    /\ UNCHANGED <<cartVars, pageVars, shopVars, suiteVars, gridVars>>

\* completePurchase: click Purchase, wait up to 10 s for '.sweet-alert',
\* expect it visible.
CompletePurchase ==
    /\ Len(trail) < MaxCalls
    /\ LET clickable == order.modalOpen /\ order.panel = <<>>
           shown == clickable /\ PurchaseAccepted(order.fields)
       IN  /\ order' = IF shown THEN [order EXCEPT !.panel = ThankYou] ELSE order
           /\ Called("completePurchase", <<>>, IF shown THEN "returned" ELSE "threw", <<>>)
    /\ UNCHANGED <<cartVars, pageVars, shopVars, suiteVars, gridVars>>

\* A confirmPurchase that reads the text after it has clicked OK.
ConfirmPurchaseReadLast ==
    /\ Len(trail) < MaxCalls
    /\ LET shown == order.panel # <<>>
       IN  /\ order' = IF shown THEN NoOrder ELSE order
           /\ screen' = IF shown THEN "home" ELSE screen
           /\ rows' = IF shown THEN <<>> ELSE rows
           /\ Called("confirmPurchase", <<>>, IF shown THEN "returned" ELSE "threw",
                     IF shown THEN NoOrder.panel ELSE <<>>)
    /\ UNCHANGED <<raPc, itemCount, last, seen>>
    /\ UNCHANGED <<pageVars, shopVars, suiteVars, gridVars>>

\* confirmPurchase: wait for '.confirm', expect it visible, read
\* '.sweet-alert h2', click OK (the page then returns to the home page with
\* the cart emptied), return the text.
ConfirmPurchase ==
    /\ Len(trail) < MaxCalls
    /\ LET shown == order.panel # <<>>
           successText == order.panel
       IN  /\ order' = IF shown THEN NoOrder ELSE order
           /\ screen' = IF shown THEN "home" ELSE screen
           /\ rows' = IF shown THEN <<>> ELSE rows
           /\ Called("confirmPurchase", <<>>, IF shown THEN "returned" ELSE "threw",
                     IF shown THEN successText ELSE <<>>)
    /\ UNCHANGED <<raPc, itemCount, last, seen>>
    /\ UNCHANGED <<pageVars, shopVars, suiteVars, gridVars>>

\* Carts that a checkout starts from.
CheckoutCarts ==
    { <<>>,
      << [name |-> <<"Sony">>, price |-> <<"790">>] >>,
      << [name |-> <<"Sony">>, price |-> <<"790">>],
         [name |-> <<"Sony", "vaio">>, price |-> <<WS, "360">>] >> }

CheckoutInit ==
    /\ screen \in { "cart", "home" }
    /\ rows \in (IF screen = "cart" THEN CheckoutCarts ELSE { <<>> })
    /\ raPc = "idle"
    /\ itemCount = 0
    /\ last = NoOp
    /\ seen = NoSeen
    /\ modal = "none"
    /\ session \in { "in", "out" }
    /\ listeners = <<>>
    /\ opCount = 0
    /\ cur = Idle
    /\ res = [o \in Ops |-> NoRes]
    /\ heard = [o \in Ops |-> NoHeard]
    /\ remote = [o \in Ops |-> "none"]
    /\ dlg = [o \in Ops |-> NoDlg]
    /\ aux = NoAux
    /\ ShopStart
    /\ SuiteStart
    /\ StoreStart

CheckoutNext ==
    \/ PlaceOrder
    \/ \E orderDetails \in OrderDetails : FillOrderForm(orderDetails)
    \/ CompletePurchase
    \/ ConfirmPurchase

CheckoutSpec == CheckoutInit /\ [][CheckoutNext]_vars

\* -------------------------------------------------------------- add to cart
\* Texts the alert raised by the add-to-cart click can carry.
AlertTexts == { ProductAdded, <<"Product", "added">>, <<"Product">>,
                <<"added", "Product">>, <<>> }

\* The remote application answers the add-to-cart click of operation o with
\* an alert; the product is in the remote cart when the alert confirms it.
AddAnswer(o) ==
    /\ remote[o] = "addToCart"
    /\ ~DialogOpen
    /\ remote' = [remote EXCEPT ![o] = "done"]
    /\ \E msg \in AlertTexts :
          /\ RaiseDialog(o, msg)
          /\ basket' = IF Includes(msg, AddedText) THEN Append(basket, product) ELSE basket
    /\ UNCHANGED <<session, opCount, cur, res, aux, product, totalp>>
    /\ UNCHANGED <<cartVars, suiteVars, storeVars>>

AddNext ==
    \/ \E p \in ProductRows : OpenProduct(p)
    \/ StartOp("addToCart")
    \/ WaitForEvent
    \/ Click
    \/ AwaitDialog
    \/ AssertDialog
    \/ AcceptDialog
    \/ \E o \in Ops : AddAnswer(o)

AddSpec == ShopInit /\ [][AddNext]_vars

\* ---------------------------------------------------------- category filter
Categories == { "Phones", "Laptops", "Monitors" }

\* Arguments that reach the default branch of the switch.
OtherCategories == { "phones", "Tablets" }

\* What the grid lists: every product, one category, or no card at all.
Listings == { "all", "empty" } \cup Categories

\* selectProductCategory clicking the category link before it looks at the
\* argument.
SelectStartClickFirst(category) ==
    /\ nav.pc = "idle"
    /\ \E cleared \in BOOLEAN :
          grid' = [shown |-> IF cleared THEN "empty" ELSE grid.shown,
                   pending |-> IF category \in Categories THEN category ELSE "Phones"]
    /\ nav' = IF category \in Categories
              THEN [arg |-> category, pc |-> "wait", outcome |-> "running",
                    clicked |-> TRUE, waited |-> FALSE, before |-> grid.shown,
                    at |-> "none"]
              ELSE [arg |-> category, pc |-> "idle", outcome |-> "invalid",
                    clicked |-> TRUE, waited |-> FALSE, before |-> grid.shown,
                    at |-> "none"]
    /\ UNCHANGED <<cartVars, pageVars, shopVars, suiteVars, checkoutVars>>

\* selectProductCategory, the switch: click the link of the category, or
\* throw 'Invalid category' in the default branch.  The click sends the
\* request for the category's products; the page may or may not empty the
\* grid before the answer is there.
SelectStart(category) ==
    /\ nav.pc = "idle"
    /\ IF category \in Categories
       THEN /\ \E cleared \in BOOLEAN :
                  grid' = [shown |-> IF cleared THEN "empty" ELSE grid.shown,
                           pending |-> category]
            /\ nav' = [arg |-> category, pc |-> "wait", outcome |-> "running",
                       clicked |-> TRUE, waited |-> FALSE, before |-> grid.shown,
                       at |-> "none"]
       ELSE /\ grid' = grid
            /\ nav' = [arg |-> category, pc |-> "idle", outcome |-> "invalid",
                       clicked |-> FALSE, waited |-> FALSE, before |-> grid.shown,
                       at |-> "none"]
    /\ UNCHANGED <<cartVars, pageVars, shopVars, suiteVars, checkoutVars>>

\* The remote application's answer: the grid lists the requested category.
GridAnswer ==
    /\ grid.pending # "none"
    /\ grid' = [shown |-> grid.pending, pending |-> "none"]
    /\ UNCHANGED nav
    /\ UNCHANGED <<cartVars, pageVars, shopVars, suiteVars, checkoutVars>>

\* await this.page.waitForSelector('.card', { timeout: 5000 }): returns as
\* soon as a card is in the grid, throws when none appears in time.
SelectWait ==
    /\ nav.pc = "wait"
    /\ nav' = [nav EXCEPT !.pc = "idle", !.waited = TRUE, !.at = grid.shown,
                          !.outcome = IF grid.shown # "empty" THEN "returned"
                                      ELSE "threw"]
    /\ UNCHANGED grid
    /\ UNCHANGED <<cartVars, pageVars, shopVars, suiteVars, checkoutVars>>

GridInit ==
    /\ PageStart
    /\ CartStart
    /\ ShopStart
    /\ SuiteStart
    /\ CheckoutStart
    /\ grid \in [shown : Listings \ { "empty" }, pending : { "none" }]
    /\ nav = NoNav

GridNext ==
    \/ \E category \in Categories \cup OtherCategories : SelectStart(category)
    \/ GridAnswer
    \/ SelectWait

GridSpec == GridInit /\ [][GridNext]_vars

\* ================================================================== claims
Finished(o) == res[o].outcome \in { "returned", "threw" }
Raised(o) == dlg[o].status # "none"
Receivers(o) == { dlg[o].receivers[i] : i \in 1..Len(dlg[o].receivers) }

\* C1: across any sequence of operations on one page, every native dialog is
\* captured and accepted by exactly one observer, the one registered by the
\* operation whose click raised it: no observer fires on a dialog raised by
\* another operation, and no dialog is accepted twice.  (login registers no
\* observer; its dialogs are only required not to reach a foreign observer.)
C1_OneObserverPerDialog ==
    \A o \in Ops :
        Raised(o) =>
            /\ Receivers(o) \subseteq { o }
            /\ dlg[o].accepts <= 1
            /\ (res[o].kind # "login" => dlg[o].receivers = <<o>>)

\* C2: a dialog raised by the click of addToCart, whenever it arrives, is
\* observed by that addToCart.
C2_AddToCartObservesItsDialog ==
    \A o \in Ops :
        (res[o].kind = "addToCart" /\ Raised(o)) => o \in Receivers(o)

\* C3: whenever the submit click of sendMessage or sendEmptyForm raises a
\* dialog, the operation returns exactly that dialog's text, whenever the
\* dialog arrives; it never throws on account of the text.
C3_SendReturnsDialogText ==
    \A o \in Ops :
        (/\ res[o].kind \in { "sendMessage", "sendEmptyForm" }
         /\ Finished(o)
         /\ Raised(o))
        => (res[o].outcome = "returned" /\ res[o].value = dlg[o].msg)

\* C4: signUp returns true if and only if the dialog raised by its submit
\* contains 'Sign up successful', and returns false, without throwing, for a
\* dialog with any other text.
C4_SignUpClassifiesDialog ==
    \A o \in Ops :
        (res[o].kind = "signUp" /\ Finished(o) /\ Raised(o))
        => /\ res[o].outcome = "returned"
           /\ res[o].value = Includes(dlg[o].msg, SuccessText)

\* C5: login returns normally whether or not the remote application accepts
\* the credentials: a rejected login does not make login fail.
C5_LoginReturnsWhenRejected ==
    \A o \in Ops :
        (res[o].kind = "login" /\ Raised(o)) => res[o].outcome # "threw"

\* C6: a logout invoked while no user is logged in fails with an error, for
\* AuthenticationPage.logout and for HomePage.logout.
C6_LogoutWhileLoggedOutFails ==
    (/\ aux.kind \in { "AuthenticationPage.logout", "HomePage.logout" }
     /\ aux.pre = "out")
    => aux.outcome = "threw"

\* C7: the logged-in probes never throw: they return true when the landmark
\* becomes visible within the probe timeout and false when it does not.
C7_ProbesNeverThrow ==
    aux.kind \in { "isLoggedIn", "isUserLoggedIn" }
    => /\ aux.outcome = "returned"
       /\ aux.value = (aux.pre = "in")

C7_Witness ==
    /\ aux.kind = "isUserLoggedIn"
    /\ aux.pre = "out"
    /\ aux.value = FALSE
    /\ session = "pending"

\* ------------------------------------------------------------- cart claims
Names(scr, rs) ==
    LET items == GetCartItems(scr, rs).items
    IN  { items[i].name : i \in 1..Len(items) }

Occurrences(scr, rs, name) ==
    LET items == GetCartItems(scr, rs).items
    IN  Cardinality({ i \in 1..Len(items) : items[i].name = name })

FirstRowNamed(scr, rs, name) ==
    LET items == GetCartItems(scr, rs).items
    IN  CHOOSE i \in 1..Len(items) :
           /\ items[i].name = name
           /\ \A j \in 1..(i - 1) : items[j].name # name

Removed == last.op = "removeItemByName" /\ last.outcome = "returned" /\ last.effective

\* C8 as stated: removing a named item from a cart that contains it (the
\* delete click taking effect) decreases getCartItemCount() by exactly 1 and
\* the name no longer appears in getCartItems().
C8_NameGoneAfterRemoval ==
    Removed =>
        /\ GetCartItemCount(screen, rows) = GetCartItemCount(screen, last.before) - 1
        /\ last.arg \notin Names(screen, rows)

\* C8 amended: for a cart that contains the name, removeItemByName returns
\* and, the delete click taking effect, removes exactly the first row of that
\* name: getCartItemCount() decreases by exactly 1, and the name is gone from
\* getCartItems() exactly when it occurred in one row only.
C8_FirstRowOfNameRemoved ==
    /\ (last.op = "removeItemByName" /\ last.arg \in Names(screen, last.before))
       => last.outcome = "returned"
    /\ Removed =>
        /\ rows = RemoveAt(last.before, FirstRowNamed(screen, last.before, last.arg))
        /\ GetCartItemCount(screen, rows) = GetCartItemCount(screen, last.before) - 1
        /\ (last.arg \notin Names(screen, rows)
            <=> Occurrences(screen, last.before, last.arg) = 1)

C8_Witness ==
    /\ Removed
    /\ Len(last.before) = MaxRows
    /\ Occurrences(screen, last.before, last.arg) = 2
    /\ last.arg \in Names(screen, rows)

\* C9: when every delete click removes a row, removeAllItems terminates, and
\* whenever it has terminated getCartItemCount() is 0.
C9_RemoveAllTerminatesEmpty ==
    /\ [](raPc = "done" => GetCartItemCount(screen, rows) = 0)
    /\ (raPc \in { "test", "click" }) ~> (raPc = "done" \/ ~last.effective)

C9_Witness ==
    /\ raPc = "done"
    /\ last.effective
    /\ Len(last.before) = MaxRows
    /\ rows = <<>>

\* C10: removeAllItems is bounded by a maximum number of iterations: it
\* terminates even when the delete clicks never remove a row.
C10_RemoveAllAlwaysTerminates ==
    (raPc \in { "test", "click" }) ~> (raPc = "done")

\* --------------------------------------------------------- cart query claims
AllWhitespace(text) == \A i \in 1..Len(text) : text[i] = WS

\* C11: getCartItemCount() returns 0 when the cart table has no rows, 0 when
\* it has exactly one row whose text is empty or whitespace only, and the
\* number of rows otherwise.
C11_CountTreatsBlankRowAsZero ==
    seen.count # -1 =>
        seen.count = IF Len(rows) = 0 THEN 0
                     ELSE IF Len(rows) = 1 /\ AllWhitespace(RowText(rows[1])) THEN 0
                     ELSE Len(rows)

C11_Witness ==
    /\ seen.count = 0
    /\ Len(rows) = 1
    /\ rows[1].name = <<WS>>

BothQueried == seen.count # -1 /\ seen.called > 0 /\ screen = "cart"

SingleBlankRow == Len(rows) = 1 /\ AllWhitespace(RowText(rows[1]))

\* C12 as stated: in every cart state getCartItemCount() equals the length of
\* the sequence getCartItems() returns, the cart not changing in between.
C12_CountEqualsItemsLength ==
    BothQueried => (~seen.threw /\ seen.count = Len(seen.items))

\* C12 amended: the two agree in every cart state except the one where the
\* table holds a single row without text: there getCartItemCount() is 0 and
\* getCartItems() returns one line, with empty name and price.
C12_CountEqualsItemsUnlessBlankRow ==
    BothQueried =>
        /\ ~seen.threw
        /\ IF SingleBlankRow
           THEN /\ seen.count = 0
                /\ Len(seen.items) = 1
                /\ seen.items[1] = [name |-> <<>>, price |-> <<>>]
           ELSE seen.count = Len(seen.items)

C12_Witness ==
    /\ BothQueried
    /\ seen.count = MaxRows
    /\ Len(seen.items) = MaxRows

Thousandths(text) ==
    CASE text = <<"2">> -> 2000
      [] text = <<" ", "$", "1", ".", "5">> -> 1500
      [] text = <<"1", ",", "0", "0", "0", ".", "2", "5">> -> 1000250
      [] text = <<"3", ".", "5">> -> 3500
      [] text = <<"T", "o", "t", "a", "l", " ", "3", ".", "5", "0", "5">> -> 3505
      [] text = <<"3", ".", "5", "2">> -> 3520
      [] text = <<"1", "0", "0", "3", ".", "7", "5">> -> 1003750
      [] OTHER -> -1

RECURSIVE SumOfLines(_)
SumOfLines(rs) ==
    IF rs = <<>> THEN 0 ELSE Thousandths(Head(rs).price) + SumOfLines(Tail(rs))

\* C15: for a cart of 1..N lines with well-formed prices,
\* calculateExpectedTotal() is the sum of the line prices, and
\* verifyTotalPrice() returns true exactly when that sum and the displayed
\* total differ by less than 0.01.
C15_TotalIsSumWithinTolerance ==
    /\ seen.total.calcCalled =>
          seen.total.expected = [nan |-> FALSE, v |-> SumOfLines(rows)]
    /\ seen.total.verifyCalled =>
          /\ ~seen.total.threw
          /\ seen.total.ok =
                LET shown == Thousandths(totalp)
                    sum == SumOfLines(rows)
                IN  /\ shown # -1
                    /\ sum - shown < 10
                    /\ shown - sum < 10

C15_Witness ==
    /\ seen.total.verifyCalled
    /\ seen.total.ok
    /\ Len(rows) = 2
    /\ Thousandths(totalp) = 3505
    /\ SumOfLines(rows) = 3500

\* ------------------------------------------------------------ scenario claims
\* C17: a failure of an operation or assertion inside a scenario makes the
\* scenario fail: no scenario is reported as passed after one of its
\* statements has failed.
C17_FailuresFailTheScenario ==
    run.status = "passed" => ~run.failed

HookOver == run.pc \in { "done", "idle" } /\ run.test # "none"

C19_GeneratedUsernamesDistinct ==
    \A i, j \in 1..Len(made) :
        i # j => made[i].username # made[j].username

\* ------------------------------------------------------------- account claims
SignedUpBefore(o) ==
    \E p \in 1..(o - 1) :
        /\ res[p].kind = "signUp"
        /\ res[p].outcome = "returned"
        /\ res[p].value = TRUE

LoginSubmittedAfterSignUp ==
    \E o \in Ops :
        res[o].kind = "login" /\ remote[o] = "logIn" /\ SignedUpBefore(o)

LoggedInAs(u) == session = "in" /\ Includes(welcome, u)

\* C20: after signUp with a freshly generated username has returned true, a
\* login with the same credentials leads to the logged-in state, the welcome
\* landmark showing that username, and verifyLoginSuccess(username) called
\* after that login passes.
C20_SignUpThenLoginLogsIn ==
    /\ [](  (/\ verified.called
             /\ verified.arg = user
             /\ verified.after \in Ops
             /\ res[verified.after].kind = "login"
             /\ res[verified.after].outcome = "returned"
             /\ SignedUpBefore(verified.after))
          => verified.outcome = "returned")
    /\ (LoginSubmittedAfterSignUp ~> LoggedInAs(user))

C20_Witness ==
    /\ verified.called
    /\ verified.arg = user
    /\ verified.outcome = "returned"
    /\ res[1].kind = "signUp"
    /\ res[1].outcome = "returned"
    /\ res[1].value = TRUE
    /\ res[2].kind = "login"
    /\ res[2].outcome = "returned"
    /\ verified.after = 2
    /\ LoggedInAs(user)

\* ---------------------------------------------------------------- form claims
Reports(error) == \E i \in 1..Len(validation.errors) : validation.errors[i] = error

HasAt(text) == \E i \in 1..Len(text) : text[i] = "@"

\* C16: verifyFormValidation() reports every violated rule: 'Email is
\* required' iff the email is empty, 'Name is required' iff the name is
\* empty, 'Message is required' iff the message is empty, 'Invalid email
\* format' iff the email is non-empty and has no '@'; isValid iff no error.
C16_ValidationReportsEveryRule ==
    validation.called =>
        /\ Reports("Email is required") <=> Len(form.email) = 0
        /\ Reports("Name is required") <=> Len(form.name) = 0
        /\ Reports("Message is required") <=> Len(form.message) = 0
        /\ Reports("Invalid email format")
              <=> (Len(form.email) > 0 /\ ~HasAt(form.email))
        /\ validation.isValid <=> Len(validation.errors) = 0

C16_Witness ==
    /\ validation.called
    /\ Len(validation.errors) = 3
    /\ Reports("Invalid email format")
    /\ Reports("Name is required")
    /\ Reports("Message is required")

\* ------------------------------------------------------------ shopping claims
AllAddsSucceeded ==
    /\ opCount >= 1
    /\ \A o \in 1..opCount : res[o].kind = "addToCart" /\ res[o].outcome = "returned"

AddedNames == { Trim(basket[i].name) : i \in 1..Len(basket) }

\* C13: starting from an empty cart, after k successful addToCart()
\* operations and opening the cart, getCartItemCount() is k and
\* verifyItemInCart(name) is true for every product name that was added.
C13_AddedProductsAreInCart ==
    (screen = "cart" /\ AllAddsSucceeded) =>
        /\ seen.count # -1 => seen.count = opCount
        /\ (seen.verify.called /\ seen.verify.arg \in AddedNames)
           => (~seen.verify.threw /\ seen.verify.value)

C13_Witness ==
    /\ screen = "cart"
    /\ AllAddsSucceeded
    /\ opCount = 2
    /\ Trim(basket[1].name) # Trim(basket[2].name)
    /\ seen.count = 2
    /\ seen.verify.called
    /\ seen.verify.arg = Trim(basket[2].name)
    /\ seen.verify.value

\* ------------------------------------------------------------- logout claims
\* C21: from the logged-in state, AuthenticationPage.logout() returns and
\* leaves the session logged out; in the logged-out state verifyLoggedOut()
\* passes and isLoggedIn() returns false.
C21_LogoutLeadsToLoggedOut ==
    /\ [][(aux'.kind = "AuthenticationPage.logout" /\ session = "in"
            /\ remote' = remote /\ (aux' # aux \/ session' # session))
           => (aux'.outcome = "returned" /\ aux'.pre = "in" /\ session' = "out")]_vars
    /\ []((aux.kind = "AuthenticationPage.logout" /\ aux.pre = "in")
           => aux.outcome = "returned")
    /\ []((aux.kind = "verifyLoggedOut" /\ session = "out")
           => (aux.outcome = "returned" /\ aux.pre = "out"))
    /\ []((aux.kind = "isLoggedIn" /\ session = "out")
           => (aux.outcome = "returned" /\ aux.value = FALSE))

C21_Witness ==
    /\ aux.kind = "AuthenticationPage.logout"
    /\ aux.pre = "in"
    /\ aux.outcome = "returned"
    /\ session = "out"

\* ----------------------------------------------------------- checkout claims
Journey == <<"placeOrder", "fillOrderForm", "completePurchase", "confirmPurchase">>

ValidDetails(d) == \A f \in FieldNames : d[f] # <<>>

\* The calls made so far are a prefix of the purchase journey with valid
\* order details.
OnJourney ==
    /\ Len(trail) <= Len(Journey)
    /\ \A i \in 1..Len(trail) :
          /\ trail[i].op = Journey[i]
          /\ trail[i].op = "fillOrderForm" => ValidDetails(trail[i].arg)

\* expect(confirmationMessage).toContain('Thank you for your purchase!')
PurchaseText == <<"Thank", "you", "for", "your", "purchase!">>

Stage ==
    IF order.panel # <<>> THEN "Submitted"
    ELSE IF order.modalOpen THEN "OrderModalOpen"
    ELSE IF screen = "cart" THEN "Viewing"
    ELSE IF \E i \in 1..Len(trail) : trail[i].op = "confirmPurchase"
                                      /\ trail[i].outcome = "returned" THEN "Confirmed"
    ELSE "Away"

\* C22: on a cart page with at least one product, for a logged-in and for a
\* guest session alike, placeOrder, fillOrderForm(valid details),
\* completePurchase, confirmPurchase each return, the last one with a text
\* containing 'Thank you for your purchase!', and the checkout is Confirmed.
C22_PurchaseJourneyConfirms ==
    (screen = "cart" /\ Len(rows) >= 1 /\ trail = <<>> /\ session \in { "in", "out" })
    => [](OnJourney =>
            /\ \A i \in 1..Len(trail) : trail[i].outcome = "returned"
            /\ Len(trail) = Len(Journey) =>
                  /\ Includes(trail[Len(trail)].value, PurchaseText)
                  /\ Stage = "Confirmed")

C22_Witness ==
    /\ OnJourney
    /\ Len(trail) = Len(Journey)
    /\ trail[Len(trail)].outcome = "returned"
    /\ Includes(trail[Len(trail)].value, PurchaseText)
    /\ Stage = "Confirmed"
    /\ session = "out"

Returned(i, op) == trail[i].op = op /\ trail[i].outcome = "returned"

\* Call j returned and no confirmPurchase has returned between j and i.
StillAfter(j, i, op) ==
    /\ Returned(j, op)
    /\ \A k \in (j + 1)..(i - 1) : ~Returned(k, "confirmPurchase")

Advances == { <<"Viewing", "OrderModalOpen">>, <<"OrderModalOpen", "Submitted">>,
              <<"Submitted", "Confirmed">> }

\* C26: the checkout advances only Viewing -> OrderModalOpen -> Submitted ->
\* Confirmed: fillOrderForm and completePurchase return only after a
\* placeOrder that opened the order modal, confirmPurchase returns only after
\* a completePurchase that showed the success panel, and confirmPurchase
\* returns the text the panel showed before it was dismissed.
C26_CheckoutAdvancesInOrder ==
    /\ [](\A i \in 1..Len(trail) :
            /\ (Returned(i, "fillOrderForm") \/ Returned(i, "completePurchase"))
               => \E j \in 1..(i - 1) : StillAfter(j, i, "placeOrder")
            /\ Returned(i, "confirmPurchase")
               => \E j \in 1..(i - 1) : StillAfter(j, i, "completePurchase"))
    /\ [][Stage' # Stage => <<Stage, Stage'>> \in Advances]_vars
    /\ [][(Len(trail') > Len(trail) /\ trail'[Len(trail')].op = "confirmPurchase"
           /\ trail'[Len(trail')].outcome = "returned")
          => /\ order.panel # <<>>
             /\ trail'[Len(trail')].value = order.panel
             /\ order'.panel = <<>>]_vars

C26_Witness ==
    /\ Len(trail) = 5
    /\ trail[1].op = "confirmPurchase" /\ trail[1].outcome = "threw"
    /\ \A i \in 2..5 : Returned(i, Journey[i - 1])
    /\ trail[5].value = ThankYou
    /\ Stage = "Confirmed"

\* -------------------------------------------------------- add-to-cart claims
\* C23: an addToCart() that received the dialog raised by its own add click
\* returns, with the dialog accepted, when the text contains 'Product added',
\* and throws, leaving the dialog unaccepted, when the text does not.
C23_AddToCartChecksDialogText ==
    \A p \in 1..opCount :
        (res[p].kind = "addToCart" /\ Finished(p) /\ heard[p].from = p) =>
            IF Includes(dlg[p].msg, AddedText)
            THEN res[p].outcome = "returned" /\ dlg[p].status = "accepted"
            ELSE res[p].outcome = "threw" /\ dlg[p].status # "accepted"

C23_Witness ==
    /\ opCount = 2
    /\ res[1].kind = "addToCart" /\ res[1].outcome = "returned"
    /\ heard[1].from = 1 /\ dlg[1].status = "accepted"
    /\ res[2].kind = "addToCart" /\ res[2].outcome = "threw"
    /\ heard[2].from = 2 /\ dlg[2].msg = <<"added", "Product">>

\* ------------------------------------------------------ category filter claims
\* C24: when selectProductCategory(c) returns, the grid lists the products
\* of category c; it never returns while the grid still shows the listing
\* rendered before the click.
C24_ReturnsAfterGridReloaded ==
    (nav.outcome = "returned" /\ nav.arg \in Categories) => nav.at = nav.arg

\* C25: selectProductCategory with an argument outside {Phones, Laptops,
\* Monitors} throws the invalid-category error without clicking a category
\* link and without waiting on the grid, and the grid is unchanged.
C25_InvalidCategoryRejected ==
    /\ [](nav.arg \in OtherCategories
            => (nav.outcome = "invalid" /\ ~nav.clicked /\ ~nav.waited /\ nav.pc = "idle"))
    /\ [][nav'.arg \in OtherCategories /\ nav' # nav => grid' = grid]_vars

C25_Witness ==
    /\ nav.arg = "phones"
    /\ nav.outcome = "invalid"
    /\ grid = [shown |-> "Laptops", pending |-> "none"]

\* ------------------------------------------------------ cart removal claims
RemoveCalled == last.op = "removeItemByName"

\* 1-based indices of the rows whose trimmed name equals the name.
RowsNamed(rs, name) == { i \in 1..Len(rs) : Trim(rs[i].name) = name }

\* C27: with several rows of the same name in the cart, removeItemByName(name)
\* (its delete click taking effect) removes exactly one row, the lowest-index
\* row whose trimmed name equals the argument; every other row, the other
\* rows of that name included, stays in place and in order.
C27_OnlyFirstDuplicateRemoved ==
    (Removed /\ Cardinality(RowsNamed(last.before, last.arg)) >= 2) =>
        \E k \in RowsNamed(last.before, last.arg) :
            /\ \A j \in RowsNamed(last.before, last.arg) : k <= j
            /\ Len(rows) = Len(last.before) - 1
            /\ \A i \in 1..(k - 1) : rows[i] = last.before[i]
            /\ \A i \in k..Len(rows) : rows[i] = last.before[i + 1]
            /\ Cardinality(RowsNamed(rows, last.arg))
                 = Cardinality(RowsNamed(last.before, last.arg)) - 1

C27_Witness ==
    /\ Removed
    /\ last.arg = <<"Sony">>
    /\ Len(last.before) = 3
    /\ RowsNamed(last.before, last.arg) = { 1, 3 }
    /\ last.before[1].name # last.before[3].name
    /\ rows = <<last.before[2], last.before[3]>>

\* C28: when no cart row has a name equal to the argument,
\* removeItemByName(name) fails with the not-found error and the cart rows
\* are unchanged (no delete control is clicked).
C28_AbsentNameNotFound ==
    (RemoveCalled /\ ~GetCartItems(screen, last.before).threw
       /\ RowsNamed(last.before, last.arg) = {})
    => (last.outcome = "notfound" /\ rows = last.before)

C28_Witness ==
    /\ RemoveCalled
    /\ last.outcome = "notfound"
    /\ last.arg = <<"vaio">>
    /\ Len(last.before) = 2
    /\ \E i \in 1..2 : Includes(Trim(last.before[i].name), last.arg)
    /\ rows = last.before

\* C29: the membership check and the removal lookup agree: in every cart
\* state and for every name, when verifyItemInCart(name) returns true,
\* removeItemByName(name) finds a row (does not fail with not-found).
C29_MembershipImpliesRemovable ==
    \A name \in ArgNames :
        VerifyItemInCart(screen, rows, name).value
        => FindIndex(GetCartItems(screen, rows).items, name) >= 0

\* C30: getCartItemCount() never fails: on a page it cannot read (no
\* '#page-wrapper') it reports 0, so isCartEmpty() is true and
\* removeAllItems() returns at once without clicking anything.
C30_UnreadableCartCountsZero ==
    ~WrapperPresent(screen) =>
        /\ GetCartItemCount(screen, rows) = 0
        /\ IsCartEmpty(screen, rows)
        /\ seen.count \in { -1, 0 }
        /\ last.op = "removeAllItems" =>
              /\ rows = last.before
              /\ itemCount = 0
              /\ raPc # "click"
              /\ raPc \in { "done", "idle" } => last.outcome = "returned"

C30_Witness ==
    /\ screen = "blank"
    /\ seen.count = 0
    /\ last.op = "removeAllItems"
    /\ last.outcome = "returned"
    /\ raPc = "idle"

====
